---- MODULE Spec2Model ----
(***************************************************************************)
(* A model of the itch.io game grabber: scripts/grab_itch_game.py and      *)
(* scripts/download_game.py.                                               *)
(*                                                                         *)
(* Text (URLs, paths, filenames, markup) is a sequence of tokens.  A token *)
(* is a run of characters that the code never looks inside, except for the *)
(* properties given by the operators below ("%" followed by a hex pair, a  *)
(* role marker, the quote character, ...).                                 *)
(***************************************************************************)
EXTENDS Integers, Sequences, FiniteSets, TLC

\* ---------------------------------------------------------------- bounds
\* most references (script tags plus configuration lines) in an embed page
MaxRefs == 2
\* most files in the Build directory handed to the canonicalizer on its own
MaxFiles == 3
\* most items (quotes, separators, paths) in a markup handed to the rewriter
MaxItems == 2
\* most iframe elements in a host page handed to the resolver on its own
MaxIframes == 2

\* ------------------------------------------------------------- utilities
Range(s) == {s[i] : i \in 1..Len(s)}

None == <<"None">>

RECURSIVE Flatten(_)
Flatten(ss) == IF ss = <<>> THEN <<>> ELSE Head(ss) \o Flatten(Tail(ss))

\* all sequences over S of length at most n
SeqsUpTo(S, n) == UNION {[1..k -> S] : k \in 0..n}

\* all orderings of the finite set S (the orders os.listdir may return)
RECURSIVE Orderings(_)
Orderings(S) ==
    IF S = {} THEN {<<>>}
    ELSE UNION {{<<x>> \o o : o \in Orderings(S \ {x})} : x \in S}

\* ------------------------------------------------- filenames: unquote, lower
DQ == "\""

\* urllib.parse.unquote: one left-to-right pass; "%" followed by a hex pair is
\* replaced by the character it encodes, anything else is kept
HexPairs == {"20", "25"}
Decoded(h) == IF h = "20" THEN " " ELSE "%"

RECURSIVE unquote(_)
unquote(s) ==
    IF s = <<>> THEN <<>>
    ELSE IF Len(s) >= 2 /\ s[1] = "%" /\ s[2] \in HexPairs
         THEN <<Decoded(s[2])>> \o unquote(SubSeq(s, 3, Len(s)))
         ELSE <<s[1]>> \o unquote(Tail(s))

\* urllib.parse.quote(.., safe=":/?#[]@!$&'()*+,;="): "%" and " " are not safe
RECURSIVE quote(_)
quote(s) ==
    IF s = <<>> THEN <<>>
    ELSE (IF s[1] = "%" THEN <<"%", "25">>
          ELSE IF s[1] = " " THEN <<"%", "20">>
          ELSE <<s[1]>>) \o quote(Tail(s))

\* str.lower on a token
Lower(t) ==
    CASE t = ".LOADER.JS" -> ".loader.js"
      [] t = ".Framework.js" -> ".framework.js"
      [] t = ".DATA" -> ".data"
      [] t = ".WASM" -> ".wasm"
      [] t = ".GZ" -> ".gz"
      [] OTHER -> t

\* marker in filename.lower()
InLower(marker, filename) == \E i \in 1..Len(filename) : Lower(filename[i]) = marker

\* marker in filename (case-sensitive)
Contains(marker, filename) == \E i \in 1..Len(filename) : filename[i] = marker

\* filename.endswith('.gz')
EndsWithGz(filename) == Len(filename) > 0 /\ filename[Len(filename)] = ".gz"

\* the simplified (canonical) filename of the alias pass, or None
SimpleFilename(filename) ==
    IF InLower(".loader.js", filename) THEN <<"loader.js">>
    ELSE IF InLower(".framework.js", filename)
         THEN (IF EndsWithGz(filename) THEN <<"framework.js", ".gz">> ELSE <<"framework.js">>)
    ELSE IF InLower(".data", filename)
         THEN (IF EndsWithGz(filename) THEN <<"data", ".gz">> ELSE <<"data">>)
    ELSE IF InLower(".wasm", filename)
         THEN (IF EndsWithGz(filename) THEN <<"wasm", ".gz">> ELSE <<"wasm">>)
    ELSE None

CanonicalNames ==
    {<<"loader.js">>, <<"framework.js">>, <<"framework.js", ".gz">>, <<"data">>,
     <<"data", ".gz">>, <<"wasm">>, <<"wasm", ".gz">>}

\* -------------------------------------------------- a directory of files
\* A directory is a function from the names present to the files' contents.
EmptyDir == [n \in {} |-> None]

Without(d, name) == [n \in (DOMAIN d) \ {name} |-> d[n]]

Put(d, name, content) ==
    [n \in (DOMAIN d) \cup {name} |-> IF n = name THEN content ELSE d[n]]

\* os.rename(old, new) on a POSIX file system: new is replaced when it exists
Rename(d, old, new) == IF old = new THEN d ELSE Put(Without(d, old), new, d[old])

\* the result of a pass: the directory, and the names whose file was replaced
PassResult(d, lost) == [dir |-> d, overwritten |-> lost]

\* a first pass that renames nothing
DecodePass_Skip(d, order, lost) == PassResult(d, lost)

\* first pass of fix_url_encoded_filenames over the listing `order`
RECURSIVE DecodePass(_, _, _)
DecodePass(d, order, lost) ==
    IF order = <<>> THEN PassResult(d, lost)
    ELSE LET filename == Head(order)
             decoded_name == unquote(filename)
         IN  IF "%" \in Range(filename)
             THEN DecodePass(Rename(d, filename, decoded_name), Tail(order),
                             IF decoded_name # filename /\ decoded_name \in DOMAIN d
                             THEN lost \cup {decoded_name} ELSE lost)
             ELSE DecodePass(d, Tail(order), lost)

\* an alias pass that moves the file to its simplified name
CopyIfAbsent_Move(d, filename, simple) ==
    IF simple \in DOMAIN d THEN d ELSE Rename(d, filename, simple)

\* an alias pass that copies over an existing simplified file
CopyIfAbsent_Overwrite(d, filename, simple) == Put(d, simple, d[filename])

\* the copy of the alias pass: skipped when the simplified file exists
CopyIfAbsent(d, filename, simple) ==
    IF simple \in DOMAIN d THEN d ELSE Put(d, simple, d[filename])

\* second pass of fix_url_encoded_filenames over the listing `order`
RECURSIVE AliasPass(_, _, _)
AliasPass(d, order, lost) ==
    IF order = <<>> THEN PassResult(d, lost)
    ELSE LET filename == Head(order)
             simple_filename == SimpleFilename(filename)
             next == IF simple_filename # None
                     THEN CopyIfAbsent(d, filename, simple_filename) ELSE d
         IN  AliasPass(next, Tail(order),
                       IF simple_filename # None /\ simple_filename \in DOMAIN d
                          /\ next[simple_filename] # d[simple_filename]
                       THEN lost \cup {simple_filename} ELSE lost)

\* os.listdir(build_dir) of the first pass: an order the file system chooses. Only
\* the names with a "%" are listed here: the loop body does nothing for the others,
\* wherever they stand in the listing.
DecodeListings(d) == Orderings({n \in DOMAIN d : "%" \in Range(n)})

\* os.listdir(build_dir) of the second pass, likewise: the names that get a
\* simple_filename, in the order the file system lists them
AliasListings(d) == Orderings({n \in DOMAIN d : SimpleFilename(n) # None})

\* no listing taken yet
NoListing == [order |-> <<>>, present |-> {}, dir |-> EmptyDir]

\* fix_url_encoded_filenames(build_dir) with the two listings os.listdir gave
fix_url_encoded_filenames(d, order1, order2) ==
    LET one == DecodePass(d, order1, {})
    IN  AliasPass(one.dir, order2, one.overwritten)

\* ------------------------------------------------- the bundle rewriter
SQ == "'"
Quotes == {DQ, SQ}

\* index of the last token of the run of non-quote tokens that holds s[i]:
\* how far [^"']* reaches from i
RECURSIVE SpanEnd(_, _)
SpanEnd(s, i) == IF i < Len(s) /\ s[i + 1] \notin Quotes THEN SpanEnd(s, i + 1) ELSE i

MarkAt(s, j, mark) ==
    j + Len(mark) - 1 <= Len(s) /\ SubSeq(s, j, j + Len(mark) - 1) = mark

\* re.sub(r'Build/[^"\']*<mark>[^"\']*', repl, s): the leftmost Build/ that has
\* the mark after it before the next quote matches, up to that quote
RECURSIVE SubFrom(_, _, _, _)
SubFrom(s, i, mark, repl) ==
    IF i > Len(s) THEN <<>>
    ELSE IF s[i] = "Build/"
            /\ \E j \in (i + 1)..(SpanEnd(s, i) - Len(mark) + 1) : MarkAt(s, j, mark)
         THEN repl \o SubFrom(s, SpanEnd(s, i) + 1, mark, repl)
         ELSE <<s[i]>> \o SubFrom(s, i + 1, mark, repl)

re_sub(mark, repl, s) == SubFrom(s, 1, mark, repl)

\* least k >= i with s[k] = tok, or 0
RECURSIVE First(_, _, _)
First(s, i, tok) ==
    IF i > Len(s) THEN 0 ELSE IF s[i] = tok THEN i ELSE First(s, i + 1, tok)

\* re.sub(r'<script[^>]*<marker>[^>]*>.*?</script>', '', s, flags=re.DOTALL)
RECURSIVE StripFrom(_, _, _)
StripFrom(s, i, marker) ==
    IF i > Len(s) THEN <<>>
    ELSE LET gt == First(s, i + 1, ">")
             close == IF gt = 0 THEN 0 ELSE First(s, gt + 1, "</script>")
         IN  IF s[i] = "<script" /\ gt # 0 /\ close # 0
                /\ \E j \in (i + 1)..(gt - 1) : s[j] = marker
             THEN StripFrom(s, close + 1, marker)
             ELSE <<s[i]>> \o StripFrom(s, i + 1, marker)

strip_scripts(marker, s) == StripFrom(s, 1, marker)

\* the replacements list of create_standalone_html, in order
replacements ==
    << <<<<".loader.js">>, <<"Build/", "loader.js">>>>,
       <<<<".framework.js", ".gz">>, <<"Build/", "framework.js", ".gz">>>>,
       <<<<".framework.js">>, <<"Build/", "framework.js">>>>,
       <<<<".data", ".gz">>, <<"Build/", "data", ".gz">>>>,
       <<<<".data">>, <<"Build/", "data">>>>,
       <<<<".wasm", ".gz">>, <<"Build/", "wasm", ".gz">>>>,
       <<<<".wasm">>, <<"Build/", "wasm">>>> >>

RECURSIVE ApplyReplacements(_, _)
ApplyReplacements(reps, s) ==
    IF reps = <<>> THEN s
    ELSE ApplyReplacements(Tail(reps), re_sub(Head(reps)[1], Head(reps)[2], s))

\* create_standalone_html of grab_itch_game.py: content read -> content written
create_standalone_html(content) ==
    ApplyReplacements(replacements,
        strip_scripts("htmlgame.js", strip_scripts("itch.io", content)))

\* ------------------------------------------------------- URLs and pages
game_url == <<"https:", "//", "dev.itch.io", "/", "game">>

AbsClassic == <<"https:", "//", "html-classic.itch.zone", "/", "html/", "index.html">>
AbsCdn == <<"https:", "//", "cdn.example", "/", "game/", "index.html">>
SchemeRel == <<"//", "v6p9.itch.zone", "/", "html/", "index.html">>
RootRel == <<"/", "embed/", "index.html">>
PathRel == <<"embed/", "index.html">>

EmbedTargets == {AbsClassic, AbsCdn, SchemeRel, RootRel, PathRel}

IsAbsolute(url) == url # None /\ Len(url) > 0 /\ url[1] \in {"https:", "http:"}

\* an iframe element of the host page: its src attribute (None: no src), id and class
IframeElements == [src : EmbedTargets \cup {None}, id : {"game_drop", ""}, class : {"game_frame", ""}]

\* the .iframe_placeholder element: NoPlaceholder, or the src of the iframe its
\* data-iframe attribute holds (None: the attribute holds no iframe with a src)
NoPlaceholder == <<"NoPlaceholder">>
Placeholders == {NoPlaceholder, None, SchemeRel, AbsCdn}

HostPages ==
    [iframes : SeqsUpTo(IframeElements, MaxIframes), placeholder : Placeholders]

\* fragment in src (the CSS selector iframe[src*="fragment"])
SrcHas(fragment, src) ==
    /\ src # None
    /\ \E i \in 1..Len(src) :
          \/ src[i] = fragment
          \/ fragment = "itch.zone" /\ src[i] \in {"html-classic.itch.zone", "v6p9.itch.zone"}

MatchClassic(f) == SrcHas("html-classic.itch.zone", f.src)
MatchZone(f) == SrcHas("itch.zone", f.src)
MatchGameDrop(f) == f.id = "game_drop"
MatchGameFrame(f) == f.class = "game_frame"
MatchAny(f) == TRUE

\* the selector of one lookup, applied to one element
Matches(pattern, f) ==
    CASE pattern = "iframe[src*=html-classic.itch.zone]" -> MatchClassic(f)
      [] pattern = "iframe[src*=itch.zone]" -> MatchZone(f)
      [] pattern = "iframe[id=game_drop]" -> MatchGameDrop(f)
      [] pattern = "iframe.game_frame" -> MatchGameFrame(f)
      [] pattern = "iframe" -> MatchAny(f)

\* soup.select_one / soup.find: <<the first element in document order>>, or <<>>
FirstIframe(iframes, pattern) ==
    LET hits == {i \in 1..Len(iframes) : Matches(pattern, iframes[i])}
    IN  IF hits = {} THEN <<>>
        ELSE <<iframes[CHOOSE i \in hits : \A k \in hits : i <= k]>>

\* `iframe and iframe.get('src')`
HasSrc(iframe) == iframe # <<>> /\ iframe[1].src # None

\* find_embedded_game_url of grab_itch_game.py, once the page is fetched
find_embedded_game_url(page) ==
    LET a == FirstIframe(page.iframes, "iframe[src*=html-classic.itch.zone]")
        b == FirstIframe(page.iframes, "iframe[src*=itch.zone]")
        c == FirstIframe(page.iframes, "iframe[id=game_drop]")
    IN  IF HasSrc(a) THEN a[1].src
        ELSE IF HasSrc(b) THEN b[1].src
        ELSE IF HasSrc(c) THEN c[1].src
        ELSE IF page.placeholder \notin {NoPlaceholder, None} THEN page.placeholder
        ELSE None

\* urljoin(base, url) for a url that starts with "/": scheme and host of base
urljoin_root(base, url) == SubSeq(base, 1, 3) \o url

\* extract_game_iframe_url of download_game.py, once the page is fetched
extract_game_iframe_url(page) ==
    LET g == FirstIframe(page.iframes, "iframe.game_frame")
        iframe == IF g # <<>> THEN g ELSE FirstIframe(page.iframes, "iframe")
        iframe_url == iframe[1].src
    IN  IF HasSrc(iframe)
        THEN (IF iframe_url[1] = "//" THEN <<"https:">> \o iframe_url
              ELSE IF iframe_url[1] = "/" THEN urljoin_root(game_url, iframe_url)
              ELSE iframe_url)
        ELSE None

\* base_url: the iframe URL without its last segment
BaseUrl(url) == SubSeq(url, 1, Len(url) - 1)

\* ------------------------------------------------------ the embed markup
LoaderPath == <<"Build/", "G", ".loader.js">>
LoaderUpper == <<"Build/", "G", ".LOADER.JS">>
FrameworkGz == <<"Build/", "G", ".framework.js", ".gz">>
DataGz == <<"Build/", "G", ".data", ".gz">>
DataGzH == <<"Build/", "H", ".data", ".gz">>
Wasm == <<"Build/", "G", ".wasm">>
WasmEnc == <<"Build/", "G", "%", "20", "H", ".wasm">>
StylePath == <<"TemplateData/", "style", ".js">>
ItchScript == <<"itch.io", "htmlgame.js">>
Traversal == <<"Build/", "../", "../", "X", ".data">>
BuildFolder == <<"Build">>

\* the src attributes of the script elements of an embed page
ScriptSrcs == {LoaderPath, LoaderUpper, DataGz, Wasm, StylePath, ItchScript}

\* the lines `key: "value"` of the inline configuration script of an embed page
ConfigLines ==
    {[key |-> "dataUrl", path |-> DataGz], [key |-> "dataUrl", path |-> DataGzH],
     [key |-> "frameworkUrl", path |-> FrameworkGz], [key |-> "codeUrl", path |-> Wasm],
     [key |-> "codeUrl", path |-> WasmEnc], [key |-> "dataUrl", path |-> StylePath],
     [key |-> "dataUrl", path |-> Traversal],
     [key |-> "buildUrl", path |-> BuildFolder]}

\* an embed page: its script elements with a src, in document order, then one
\* inline script holding the configuration lines
Markups ==
    {m \in [scripts : SeqsUpTo(ScriptSrcs, MaxRefs), config : SeqsUpTo(ConfigLines, MaxRefs)] :
        Len(m.scripts) + Len(m.config) <= MaxRefs}

NoMarkup == [scripts |-> <<>>, config |-> <<>>]

\* the text of the page, as create_standalone_html reads it from index.html
ScriptText(src) == <<"<script", "src=", DQ>> \o src \o <<DQ, ">", "</script>">>
LineText(line) == <<line.key, ":", DQ>> \o line.path \o <<DQ>>

MarkupText(m) ==
    Flatten([i \in 1..Len(m.scripts) |-> ScriptText(m.scripts[i])])
    \o (IF m.config = <<>> THEN <<>>
        ELSE <<"<script", ">">>
             \o Flatten([i \in 1..Len(m.config) |-> LineText(m.config[i])])
             \o <<"</script>">>)

\* src.startswith('Build/')
StartsWithBuild(path) == Len(path) > 0 /\ path[1] = "Build/"

\* re.findall(r'<key>:\s*["\']([^"\']+)["\']', str(soup))
FindAll(key, m) ==
    LET IsKey(line) == line.key = key
        lines == SelectSeq(m.config, IsKey)
    IN  [i \in 1..Len(lines) |-> lines[i].path]

\* assets_to_download of download_and_extract_embedded_game: script srcs, then
\* the dataUrl, frameworkUrl and codeUrl values, each kept when it starts with Build/
assets_to_download(m) ==
    SelectSeq(m.scripts, StartsWithBuild)
    \o SelectSeq(FindAll("dataUrl", m), StartsWithBuild)
    \o SelectSeq(FindAll("frameworkUrl", m), StartsWithBuild)
    \o SelectSeq(FindAll("codeUrl", m), StartsWithBuild)

\* os.path.basename(urlparse(src).path)
DirTokens == {"Build/", "TemplateData/", "../"}
RECURSIVE Basename(_)
Basename(path) ==
    IF \E i \in 1..Len(path) : path[i] \in DirTokens THEN Basename(Tail(path)) ELSE path

\* any(ext in src for ext in ['.loader.js', '.framework.js', '.data', '.wasm'])
HasUnityExt(src) ==
    \E ext \in {".loader.js", ".framework.js", ".data", ".wasm"} : Contains(ext, src)

\* the group of r'"([^"]*\.(?:js|wasm|data)(?:\.gz)?)"' matches the whole value
EndsWithAssetExt(value) ==
    LET n == IF EndsWithGz(value) THEN Len(value) - 1 ELSE Len(value)
    IN  n >= 1 /\ value[n] \in {".js", ".loader.js", ".framework.js", ".wasm", ".data"}

\* unity_files[filename] = full_url on a dict kept as the sequence of its srcs in
\* insertion order: a src with the same filename takes the place of the earlier one
DictSet(files, src) ==
    IF \E i \in 1..Len(files) : Basename(files[i]) = Basename(src)
    THEN [i \in 1..Len(files) |->
             IF Basename(files[i]) = Basename(src) THEN src ELSE files[i]]
    ELSE Append(files, src)

RECURSIVE DictSetAll(_, _)
DictSetAll(files, srcs) ==
    IF srcs = <<>> THEN files ELSE DictSetAll(DictSet(files, Head(srcs)), Tail(srcs))

\* unity_files of download_unity_game
unity_files(m) ==
    LET structural == SelectSeq(m.scripts, HasUnityExt)
        HasBuildUrl == \E i \in 1..Len(m.config) : m.config[i].key = "buildUrl"
        Scanned(line) == line.key \in {"buildUrl", "dataUrl"} /\ EndsWithAssetExt(line.path)
        lines == SelectSeq(m.config, Scanned)
        config == IF HasBuildUrl THEN [i \in 1..Len(lines) |-> lines[i].path] ELSE <<>>
    IN  DictSetAll(DictSetAll(<<>>, structural), config)

\* ------------------------------------------------------------ the state
VARIABLES
    entry,      \* the script that runs: "grab" (grab_itch_game.py), "download" (download_game.py)
    pc,         \* where main() stands
    hostPage,   \* <<the host page the resolver parsed>> (<<>> before and after it)
    embedUrl,   \* game_iframe_url / iframe_url (None: not found)
    markup,     \* the embed page fetched, as parsed
    indexHtml,  \* the text of the embed page, as saved to index.html
    manifest,   \* assets_to_download / unity_files, in order
    results,    \* one record per asset fetch issued, in order
    buildDir,   \* name -> content of the files of Build/ (of output_dir for download)
    elsewhere,  \* the paths, from the working directory, of the files fetched to another place
    bundle,     \* the files written beside Build/: index.html, standalone.html, ...
    standalone, \* the text written to standalone.html
    listing,    \* the alias pass's listing: the order of the aliasing names, the names present
                \* and the directory as the pass found it
    replaced,   \* the names whose file fix_url_encoded_filenames replaced by another
    snapshot,   \* Build/ as it was when fix_url_encoded_filenames last started
    requests,   \* the page and embed fetches issued so far
    log,        \* the messages printed
    outcome     \* "running", "success" (exit status 0), "failure" (exit status 1)

vars == <<entry, pc, hostPage, embedUrl, markup, indexHtml, manifest, results, buildDir, elsewhere,
          bundle, standalone, listing, replaced, snapshot, requests, log, outcome>>

Entries == {"grab", "download"}

InitRun ==
    /\ pc = "start"
    /\ hostPage = <<>>
    /\ embedUrl = None
    /\ markup = NoMarkup
    /\ indexHtml = <<>>
    /\ manifest = <<>>
    /\ results = <<>>
    /\ buildDir = EmptyDir
    /\ elsewhere = {}
    /\ bundle = {}
    /\ standalone = <<>>
    /\ listing = NoListing
    /\ replaced = {}
    /\ snapshot = EmptyDir
    /\ requests = [page |-> 0, embed |-> 0]
    /\ log = {}
    /\ outcome = "running"

Init == entry \in Entries /\ InitRun

\* sys.exit(1), also by an exception that reaches the top of main()
Exit1(message) ==
    /\ pc' = "exit"
    /\ outcome' = "failure"
    /\ log' = log \cup {message}

\* ------------------------------------------------- grab_itch_game.py: main
\* main after find_embedded_game_url returned: `if not game_iframe_url: sys.exit(1)`
AfterResolve_Continue(url) == "embed"

AfterResolve(url) == IF url = None THEN "exit" ELSE "embed"

\* find_embedded_game_url(game_url): the page is fetched once and searched
Resolve ==
    /\ entry = "grab" /\ pc = "start"
    /\ requests' = [requests EXCEPT !.page = @ + 1]
    /\ \E ok \in BOOLEAN, page \in HostPages :
          LET url == IF ok THEN find_embedded_game_url(page) ELSE None
          IN  /\ hostPage' = IF ok THEN <<page>> ELSE <<>>
              /\ embedUrl' = url
              /\ log' = log \cup (IF ~ok THEN {"Failed to fetch game page"}
                                  ELSE IF url = None THEN {"Could not find embedded HTML5 game"}
                                  ELSE {"Found embedded game URL"})
    /\ pc' = "resolved"
    /\ UNCHANGED <<entry, elsewhere, markup, indexHtml, manifest, results, buildDir, bundle, standalone,
                   listing, replaced, snapshot, outcome>>

\* main: `if not game_iframe_url: sys.exit(1)`; the page is not kept
CheckResolved ==
    /\ entry = "grab" /\ pc = "resolved"
    /\ hostPage' = <<>>
    /\ pc' = AfterResolve(embedUrl)
    /\ outcome' = IF AfterResolve(embedUrl) = "exit" THEN "failure" ELSE outcome
    /\ UNCHANGED <<entry, elsewhere, embedUrl, markup, indexHtml, manifest, results, buildDir, bundle,
                   standalone, listing, replaced, snapshot, requests, log>>

\* main after download_and_extract_embedded_game returned None: sys.exit(1)
AfterEmbedFailure == "exit"

\* download_and_extract_embedded_game up to the download loop: the embed page is
\* fetched (urlopen raises on a URL without a scheme), saved and scanned
Embed ==
    /\ entry = "grab" /\ pc = "embed"
    /\ requests' = [requests EXCEPT !.embed = @ + 1]
    /\ \E ok \in BOOLEAN, m \in Markups :
          IF ok /\ IsAbsolute(embedUrl)
          THEN /\ markup' = m
               /\ indexHtml' = MarkupText(m)
               /\ bundle' = bundle \cup {"index.html"}
               /\ manifest' = assets_to_download(m)
               /\ pc' = "fetch"
               /\ log' = log \cup {"Found assets to download"}
               /\ outcome' = outcome
          ELSE /\ pc' = AfterEmbedFailure
               /\ outcome' = IF AfterEmbedFailure = "exit" THEN "failure" ELSE outcome
               /\ log' = log \cup {"Failed to download game HTML"}
               /\ UNCHANGED <<markup, indexHtml, bundle, manifest>>
    /\ UNCHANGED <<entry, elsewhere, hostPage, embedUrl, results, buildDir, standalone, listing, replaced,
                   snapshot>>

\* the place of os.path.join(game_files_dir, asset_url), as the file system
\* resolves it: each ".." segment leaves the directory reached so far. The result
\* is a path from game_files_dir; it starts with "../" when it leaves it.
RECURSIVE Resolved(_, _)
Resolved(reached, rest) ==
    IF rest = <<>> THEN reached
    ELSE IF Head(rest) = "../"
         THEN (IF reached # <<>> /\ reached[Len(reached)] # "../"
               THEN Resolved(SubSeq(reached, 1, Len(reached) - 1), Tail(rest))
               ELSE Resolved(Append(reached, "../"), Tail(rest)))
         ELSE Resolved(Append(reached, Head(rest)), Tail(rest))

local_path(asset_url) == Resolved(<<>>, asset_url)

\* the file lies in game_files_dir/Build itself
InBuildDir(path) ==
    /\ Len(path) > 1 /\ path[1] = "Build/"
    /\ \A i \in 2..Len(path) : path[i] \notin DirTokens

\* the content urlretrieve / requests.get stores for a URL
Content(url, whole) == [url |-> url, whole |-> whole]

\* what one asset download can do: store the file, fail before the file is opened,
\* fail after part of it is written (urlretrieve raises ContentTooShortError)
FetchOutcomes == {"ok", "failed", "partial"}

\* one turn of the download loop: the try/except keeps the loop going
FetchAsset ==
    /\ entry = "grab" /\ pc = "fetch"
    /\ Len(results) < Len(manifest)
    /\ LET asset_url == manifest[Len(results) + 1]
           encoded_asset_url == quote(BaseUrl(embedUrl) \o asset_url)
       IN  \E out \in FetchOutcomes :
              /\ results' = Append(results, [asset |-> asset_url,
                                             status |-> IF out = "ok" THEN "ok" ELSE "failed"])
              /\ buildDir' = IF out = "failed" \/ ~InBuildDir(local_path(asset_url))
                             THEN buildDir
                             ELSE Put(buildDir, Tail(local_path(asset_url)),
                                      Content(encoded_asset_url, out = "ok"))
              /\ elsewhere' = IF out = "failed" \/ InBuildDir(local_path(asset_url))
                              THEN elsewhere
                              ELSE elsewhere \cup {local_path(asset_url)}
              /\ log' = log \cup (IF out = "ok" THEN {} ELSE {"Failed to download asset"})
    /\ UNCHANGED <<entry, pc, hostPage, embedUrl, markup, indexHtml, manifest, bundle,
                   standalone, listing, replaced, snapshot, requests, outcome>>

\* a call of fix_url_encoded_filenames(build_dir): each pass walks the listing
\* os.listdir returns when the pass starts
FixBuildDir ==
    /\ \E order1 \in DecodeListings(buildDir) :
          \E order2 \in AliasListings(DecodePass(buildDir, order1, {}).dir) :
             /\ buildDir' = fix_url_encoded_filenames(buildDir, order1, order2).dir
             /\ replaced' = fix_url_encoded_filenames(buildDir, order1, order2).overwritten
             /\ listing' = [order |-> order2,
                            present |-> DOMAIN DecodePass(buildDir, order1, {}).dir,
                            dir |-> DecodePass(buildDir, order1, {}).dir]
    /\ snapshot' = buildDir

\* a download loop that is left at any turn
LoopDone_Early == TRUE

\* `for asset_url in assets_to_download` has run out: every asset has its result
LoopDone == Len(results) = Len(manifest)

\* main: the files are copied to the game directory and fix_url_encoded_filenames runs
Canonicalize ==
    /\ entry = "grab" /\ pc = "fetch"
    /\ LoopDone
    /\ FixBuildDir
    /\ pc' = "rewrite"
    /\ UNCHANGED <<entry, elsewhere, hostPage, embedUrl, markup, indexHtml, manifest, results, bundle,
                   standalone, requests, log, outcome>>

\* main: create_standalone_html(index.html, standalone.html)
Rewrite ==
    /\ entry = "grab" /\ pc = "rewrite"
    /\ standalone' = create_standalone_html(indexHtml)
    /\ bundle' = bundle \cup {"standalone.html"}
    /\ pc' = "support"
    /\ UNCHANGED <<entry, elsewhere, hostPage, embedUrl, markup, indexHtml, manifest, results, buildDir,
                   listing, replaced, snapshot, requests, log, outcome>>

\* main: create_launcher_html and create_test_server
Support ==
    /\ entry = "grab" /\ pc = "support"
    /\ bundle' = bundle \cup {"launcher.html", "test_server.py"}
    /\ pc' = "info"
    /\ UNCHANGED <<entry, elsewhere, hostPage, embedUrl, markup, indexHtml, manifest, results, buildDir,
                   standalone, listing, replaced, snapshot, requests, log, outcome>>

\* main: create_game_info, then the success messages; an exception of the write
\* is caught nowhere and ends the run with a traceback and exit status 1
GameInfo ==
    /\ entry = "grab" /\ pc = "info"
    /\ \E written \in BOOLEAN :
          IF written
          THEN /\ bundle' = bundle \cup {"game_info.json"}
               /\ pc' = "done"
               /\ outcome' = "success"
               /\ log' = log \cup {"Game successfully downloaded and set up!"}
          ELSE /\ bundle' = bundle
               /\ pc' = "exit"
               /\ outcome' = "failure"
               /\ log' = log \cup {"Traceback"}
    /\ UNCHANGED <<entry, elsewhere, hostPage, embedUrl, markup, indexHtml, manifest, results, buildDir,
                   standalone, listing, replaced, snapshot, requests>>

\* --------------------------------------------------- download_game.py: main
\* extract_game_iframe_url(game_url): the page is fetched once and searched; a
\* failed fetch and a page without an iframe src raise, and main's except clause
\* prints the error and exits
DlResolve ==
    /\ entry = "download" /\ pc = "start"
    /\ requests' = [requests EXCEPT !.page = @ + 1]
    /\ \E ok \in BOOLEAN, page \in HostPages :
          LET url == IF ok THEN extract_game_iframe_url(page) ELSE None
          IN  /\ hostPage' = IF ok THEN <<page>> ELSE <<>>
              /\ embedUrl' = url
              /\ IF url = None
                 THEN Exit1(IF ok THEN "Error: Failed to extract iframe URL: No game iframe found"
                            ELSE "Error: Failed to extract iframe URL: request failed")
                 ELSE pc' = "resolved" /\ UNCHANGED <<log, outcome>>
    /\ UNCHANGED <<entry, elsewhere, markup, indexHtml, manifest, results, buildDir, bundle, standalone,
                   listing, replaced, snapshot>>

\* main: the iframe URL is printed; the page is not kept
DlCheckResolved ==
    /\ entry = "download" /\ pc = "resolved"
    /\ hostPage' = <<>>
    /\ pc' = "embed"
    /\ log' = log \cup {"Found iframe"}
    /\ UNCHANGED <<entry, elsewhere, embedUrl, markup, indexHtml, manifest, results, buildDir, bundle,
                   standalone, listing, replaced, snapshot, requests, outcome>>

\* download_unity_game up to the download loop: the iframe page is fetched and
\* scanned; no unity file found raises
DlEmbed ==
    /\ entry = "download" /\ pc = "embed"
    /\ requests' = [requests EXCEPT !.embed = @ + 1]
    /\ \E ok \in BOOLEAN, m \in Markups :
          IF ok /\ IsAbsolute(embedUrl) /\ unity_files(m) # <<>>
          THEN /\ markup' = m
               /\ manifest' = unity_files(m)
               /\ pc' = "fetch"
               /\ log' = log \cup {"Downloading Unity files"}
               /\ outcome' = outcome
          ELSE /\ Exit1(IF ok /\ IsAbsolute(embedUrl)
                        THEN "Error: Failed to download Unity game: No Unity build files found"
                        ELSE "Error: Failed to download Unity game: iframe request failed")
               /\ UNCHANGED <<markup, manifest>>
    /\ UNCHANGED <<entry, elsewhere, hostPage, embedUrl, indexHtml, results, buildDir, bundle, standalone,
                   listing, replaced, snapshot>>

\* one turn of the download loop: raise_for_status leaves the loop and the run
DlFetchAsset ==
    /\ entry = "download" /\ pc = "fetch"
    /\ Len(results) < Len(manifest)
    /\ LET src == manifest[Len(results) + 1]
           url == BaseUrl(embedUrl) \o src
       IN  \E ok \in BOOLEAN :
              /\ results' = Append(results, [asset |-> src,
                                             status |-> IF ok THEN "ok" ELSE "failed"])
              /\ IF ok
                 THEN /\ buildDir' = Put(buildDir, Basename(src), Content(url, TRUE))
                      /\ UNCHANGED <<pc, log, outcome>>
                 ELSE /\ Exit1("Error: Failed to download Unity game: file request failed")
                      /\ buildDir' = buildDir
    /\ UNCHANGED <<entry, elsewhere, hostPage, embedUrl, markup, indexHtml, manifest, bundle, standalone,
                   listing, replaced, snapshot, requests>>

\* next((f for f in unity_files.keys() if marker in f), None), '' when None
FirstKey(files, marker) ==
    LET hits == {i \in 1..Len(files) : Contains(marker, Basename(files[i]))}
    IN  IF hits = {} THEN <<>>
        ELSE Basename(files[CHOOSE i \in hits : \A k \in hits : i <= k])

\* the page create_standalone_html of download_game.py writes
StandalonePage(files) ==
    <<"dataUrl", ":", DQ>> \o FirstKey(files, ".data")
    \o <<DQ, "frameworkUrl", ":", DQ>> \o FirstKey(files, ".framework.js")
    \o <<DQ, "codeUrl", ":", DQ>> \o FirstKey(files, ".wasm")
    \o <<DQ, "script.src", "=", DQ>> \o FirstKey(files, ".loader.js") \o <<DQ>>

\* create_standalone_html(output_dir, unity_files, iframe_url), then the success
\* message of main; without a loader file it raises
DlStandalone ==
    /\ entry = "download" /\ pc = "fetch"
    /\ Len(results) = Len(manifest)
    /\ IF FirstKey(manifest, ".loader.js") = <<>>
       THEN /\ Exit1("Error: Failed to download Unity game: Loader file not found")
            /\ UNCHANGED <<standalone, bundle>>
       ELSE /\ standalone' = StandalonePage(manifest)
            /\ bundle' = bundle \cup {"standalone.html"}
            /\ pc' = "done"
            /\ outcome' = "success"
            /\ log' = log \cup {"Game download completed successfully!"}
    /\ UNCHANGED <<entry, elsewhere, hostPage, embedUrl, markup, indexHtml, manifest, results, buildDir,
                   listing, replaced, snapshot, requests>>

Next ==
    \/ Resolve \/ CheckResolved \/ Embed \/ FetchAsset \/ Canonicalize \/ Rewrite
    \/ Support \/ GameInfo
    \/ DlResolve \/ DlCheckResolved \/ DlEmbed \/ DlFetchAsset \/ DlStandalone

Spec == Init /\ [][Next]_vars

\* ------------------------------- fix_url_encoded_filenames on its own, twice
\* the names of fetched files: percent-encoded once and twice, decoded, colliding
\* on a canonical name, of upper-case role marker, canonical already, of no role
FetchedNames ==
    {<<"G", "%", "25", "20", "H", ".wasm">>, <<"G", "%", "20", "H", ".wasm">>,
     <<"G", " ", "H", ".wasm">>, <<"G", ".data", ".gz">>, <<"H", ".data", ".gz">>,
     <<"G", ".LOADER.JS">>, <<"data", ".gz">>, <<"style", ".css">>}

DirOf(names) == [n \in names |-> Content(n, TRUE)]

InitCanon ==
    /\ entry = "grab"
    /\ pc = "fix0"
    /\ hostPage = <<>>
    /\ embedUrl = AbsCdn
    /\ markup = NoMarkup
    /\ indexHtml = <<>>
    /\ manifest = <<>>
    /\ results = <<>>
    /\ \E names \in SUBSET FetchedNames :
          Cardinality(names) <= MaxFiles /\ buildDir = DirOf(names)
    /\ elsewhere = {}
    /\ bundle = {"index.html"}
    /\ standalone = <<>>
    /\ listing = NoListing
    /\ replaced = {}
    /\ snapshot = EmptyDir
    /\ requests = [page |-> 1, embed |-> 1]
    /\ log = {}
    /\ outcome = "running"

\* fix_url_encoded_filenames(build_dir), called once and once again
FixRun ==
    /\ pc \in {"fix0", "fix1"}
    /\ FixBuildDir
    /\ pc' = IF pc = "fix0" THEN "fix1" ELSE "fix2"
    /\ UNCHANGED <<entry, elsewhere, hostPage, embedUrl, markup, indexHtml, manifest, results, bundle,
                   standalone, requests, log, outcome>>

SpecCanon == InitCanon /\ [][FixRun]_vars

\* ------------------------------------- create_standalone_html on its own
Markers == {".loader.js", ".framework.js", ".data", ".wasm"}

\* asset paths Build/G<marker>[.gz]
RolePaths ==
    {<<"Build/", "G", m>> \o gz : m \in Markers, gz \in {<<>>, <<".gz">>}}

\* the pieces of a page: a path in quotes, a path followed by blank text, and the
\* two ends of a script element of the embedding host
Items ==
    {<<DQ>> \o p \o <<DQ>> : p \in RolePaths}
    \cup {p \o <<" ">> : p \in RolePaths}
    \cup {<<"<script", "itch.io", ">">>, <<"</script>">>}

Texts == {Flatten(items) : items \in SeqsUpTo(Items, MaxItems)}

InitRewrite ==
    /\ entry = "grab"
    /\ pc = "rewrite"
    /\ hostPage = <<>>
    /\ embedUrl = AbsCdn
    /\ markup = NoMarkup
    /\ indexHtml \in Texts
    /\ manifest = <<>>
    /\ results = <<>>
    /\ buildDir = EmptyDir
    /\ elsewhere = {}
    /\ bundle = {"index.html"}
    /\ standalone = <<>>
    /\ listing = NoListing
    /\ replaced = {}
    /\ snapshot = EmptyDir
    /\ requests = [page |-> 1, embed |-> 1]
    /\ log = {}
    /\ outcome = "running"

SpecRewrite == InitRewrite /\ [][Rewrite]_vars

\* ===================================================== the claims, on Spec
\* the roles materialized: the canonical files of Build/ (grab_itch_game.py), the
\* downloaded files that carry the role marker (download_game.py)
Materialized(role) ==
    IF entry = "grab"
    THEN \E name \in DOMAIN buildDir : name \in {<<role>>, <<role, ".gz">>}
    ELSE \E name \in DOMAIN buildDir : Contains("." \o role, name)

\* C1: a run (of grab_itch_game.py, on a manifest that is not empty) reports
\* success only if the loader role and at least one of the framework and code
\* roles were materialized.
C1_SuccessNeedsRoles ==
    (entry = "grab" /\ outcome = "success" /\ manifest # <<>>) =>
        /\ Materialized("loader.js")
        /\ Materialized("framework.js") \/ Materialized("wasm")

\* C2: once a run has ended, every reference of the manifest has a fetch result:
\* no failed fetch keeps a later asset from being fetched.
C2_EveryAssetAttempted ==
    pc \in {"done", "exit"} => Len(results) = Len(manifest)

\* C3: the relativePath values of a manifest are pairwise distinct.
C3_ManifestPathsDistinct ==
    \A i, j \in 1..Len(manifest) : manifest[i] = manifest[j] => i = j

\* the embed page was fetched and scanned
Extracted ==
    \/ "Found assets to download" \in log
    \/ "Downloading Unity files" \in log
    \/ "Error: Failed to download Unity game: No Unity build files found" \in log

\* C4: when both scans of the embed markup find nothing, the run aborts: no
\* asset is fetched and no later stage runs.
C4_EmptyManifestAborts ==
    (Extracted /\ manifest = <<>>) =>
        /\ pc \notin {"rewrite", "support", "info", "done"}
        /\ outcome # "success"
        /\ results = <<>>

PageFetchFailed ==
    \/ "Failed to fetch game page" \in log
    \/ "Error: Failed to extract iframe URL: request failed" \in log

EmbedNotFound ==
    \/ "Could not find embedded HTML5 game" \in log
    \/ "Error: Failed to extract iframe URL: No game iframe found" \in log

EmbedFetchFailed ==
    \/ "Failed to download game HTML" \in log
    \/ "Error: Failed to download Unity game: iframe request failed" \in log

\* C5: when the host-page fetch or the embed fetch fails, or no embed URL is
\* found, the run aborts with a failure status: the failing fetch was issued
\* once, no asset is fetched, and no standalone, launcher or descriptor is written.
C5_EarlyFailureAborts ==
    (PageFetchFailed \/ EmbedNotFound \/ EmbedFetchFailed) =>
        /\ pc \in {"resolved", "exit"}
        /\ pc = "exit" => outcome = "failure"
        /\ outcome # "success"
        /\ requests.page = 1
        /\ requests.embed = IF EmbedFetchFailed THEN 1 ELSE 0
        /\ results = <<>>
        /\ buildDir = EmptyDir
        /\ bundle \cap {"standalone.html", "launcher.html", "game_info.json"} = {}

\* C5 witness: a run that found no embed URL has exited
C5_Witness == pc = "exit" /\ EmbedNotFound /\ entry = "grab"

\* the canonical names the alias pass gave a file that was fetched
Canonicalized == entry = "grab" /\ pc \in {"rewrite", "support", "info", "done"}

AllFetched == \A i \in 1..Len(results) : results[i].status = "ok"

\* the file name an asset is stored under, once decoded
DecodedName(asset_url) == unquote(Tail(asset_url))

\* the first asset, in manifest order, that aliases to the canonical name c
FirstFetched(c) ==
    LET hits == {i \in 1..Len(manifest) : SimpleFilename(DecodedName(manifest[i])) = c}
    IN  manifest[CHOOSE i \in hits : \A k \in hits : i <= k]

\* C7 as claimed: the canonical file holds the content of the first of the
\* colliding source files in fetch (manifest) order.
C7_FirstFetchedWins ==
    (Canonicalized /\ AllFetched) =>
        \A c \in CanonicalNames \cap DOMAIN buildDir :
            buildDir[c] = Content(quote(BaseUrl(embedUrl) \o FirstFetched(c)), TRUE)

\* the first name, in the listing the alias pass walked, that aliases to c
FirstListed(c) ==
    LET hits == {i \in 1..Len(listing.order) : SimpleFilename(listing.order[i]) = c}
    IN  listing.order[CHOOSE i \in hits : \A k \in hits : i <= k]

\* C7 as amended: a canonical file holds the content of the first colliding file
\* in the order os.listdir listed Build/ for the alias pass, unless a file of the
\* canonical name was listed itself; no canonical file is replaced.
C7_FirstListedWins ==
    Canonicalized =>
        /\ replaced \cap CanonicalNames = {}
        /\ \A c \in CanonicalNames \cap DOMAIN buildDir :
              c \in listing.present \/ buildDir[c] = buildDir[FirstListed(c)]

\* C7 witness: two fetched files collide on data.gz, and the one fetched second
\* was listed first
C7_Witness ==
    /\ Canonicalized
    /\ AllFetched
    /\ manifest = <<DataGz, DataGzH>>
    /\ listing.order = <<Tail(DataGzH), Tail(DataGz)>>
    /\ buildDir[<<"data", ".gz">>] = buildDir[Tail(DataGzH)]

\* C9: an embed URL the resolver returns is absolute.
C9_EmbedUrlAbsolute == embedUrl # None => IsAbsolute(embedUrl)

\* C10: when the descriptor write fails after the earlier stages succeeded (the
\* loader and the code were materialized), the run still ends with success, the
\* bundle files in place.
C10_DescriptorFailureNonFatal ==
    ("Traceback" \in log /\ Materialized("loader.js") /\ Materialized("wasm")) =>
        /\ outcome = "success"
        /\ {"index.html", "standalone.html", "launcher.html"} \subseteq bundle

\* ================================================= the claims, on SpecCanon
\* C6: a second run of fix_url_encoded_filenames on the directory the first run
\* left changes no filename and no content, and replaces no file.
C6_SecondRunChangesNothing ==
    pc = "fix2" => buildDir = snapshot /\ replaced = {}

\* =============================================== the claims, on SpecRewrite
Role(marker) ==
    CASE marker = ".loader.js" -> "loader.js"
      [] marker = ".framework.js" -> "framework.js"
      [] marker = ".data" -> "data"
      [] marker = ".wasm" -> "wasm"

\* the canonical path of Build/G<marker>[.gz]: the loader is never compressed
CanonicalPath(marker, gz) ==
    <<"Build/", Role(marker)>> \o (IF gz /\ marker # ".loader.js" THEN <<".gz">> ELSE <<>>)

\* the path stands in the text, not followed by a further .gz
Occurs(path, text) ==
    \E k \in 1..Len(text) :
        /\ MarkAt(text, k, path)
        /\ path[Len(path)] = ".gz" \/ k + Len(path) > Len(text) \/ text[k + Len(path)] # ".gz"

\* the text of the page without the script elements of the embedding host
Kept(text) == strip_scripts("htmlgame.js", strip_scripts("itch.io", text))

\* C8: every asset path Build/G<marker>[.gz] of the page (outside the stripped
\* scripts) is replaced by the canonical path of its role, the compression
\* suffix preserved, and no game-specific prefix survives.
C8_PatternComplete ==
    (pc = "support" /\ manifest = <<>>) =>
        /\ "G" \notin Range(standalone)
        /\ \A k \in 1..Len(Kept(indexHtml)) : \A m \in Markers :
              MarkAt(Kept(indexHtml), k, <<"Build/", "G", m>>) =>
                  Occurs(CanonicalPath(m, MarkAt(Kept(indexHtml), k + 3, <<".gz">>)), standalone)

\* the same for the pages whose asset paths all stand in quotes
AllQuoted(text) ==
    \A k \in 1..Len(text) :
        text[k] = "Build/" => k > 1 /\ text[k - 1] = DQ /\ SpanEnd(text, k) < Len(text)

C8_QuotedPathsReplaced ==
    (pc = "support" /\ manifest = <<>> /\ AllQuoted(indexHtml)) =>
        /\ "G" \notin Range(standalone)
        /\ \A k \in 1..Len(Kept(indexHtml)) : \A m \in Markers :
              MarkAt(Kept(indexHtml), k, <<"Build/", "G", m>>) =>
                  Occurs(CanonicalPath(m, MarkAt(Kept(indexHtml), k + 3, <<".gz">>)), standalone)

\* ===================================================== the claims, on Spec
\* an embedding element that carries a target attribute
HasTarget(f) == f.src # None

\* the src of the first of the elements, in document order, that matches
Target(elements) == IF elements = <<>> THEN None ELSE elements[1].src

\* the URL the claimed priority order picks on a page: a fragment-specific
\* embedding element (the most specific fragment first), else a generic embedding
\* element with a target, else the placeholder
ByPriority(page) ==
    LET classic == SelectSeq(page.iframes, MatchClassic)
        zone == SelectSeq(page.iframes, MatchZone)
        generic == SelectSeq(page.iframes, HasTarget)
    IN  IF classic # <<>> THEN Target(classic)
        ELSE IF zone # <<>> THEN Target(zone)
        ELSE IF generic # <<>> THEN Target(generic)
        ELSE IF page.placeholder \notin {NoPlaceholder, None} THEN page.placeholder
        ELSE None

\* url is the target src, as it stands or resolved against the host page
SameTarget(url, src) ==
    \/ url = src
    \/ src # None /\ url \in {<<"https:">> \o src, urljoin_root(game_url, src)}

\* C11: the resolver returns the target of the highest-priority strategy that
\* yields one: fragment-specific element, then generic element, then placeholder.
C11_PriorityOrder ==
    hostPage # <<>> => SameTarget(embedUrl, ByPriority(hostPage[1]))

\* the files of Build/ whose name held a percent sequence when the canonicalizer started
Encoded == {n \in DOMAIN snapshot : "%" \in Range(n)}

\* C12: a fetched file with a percent-encoded name is renamed to its decoded name
\* before the alias pass lists the directory, and the alias pass classifies the
\* decoded name: its alias exists, without .gz when the name does not end in .gz.
C12_DecodeBeforeAlias ==
    Canonicalized =>
        \A n \in Encoded :
            /\ n \notin listing.present
            /\ unquote(n) \in listing.present
            /\ buildDir[unquote(n)] = snapshot[n]
            /\ SimpleFilename(unquote(n)) # None =>
                  /\ unquote(n) \in Range(listing.order)
                  /\ SimpleFilename(unquote(n)) \in DOMAIN buildDir
                  /\ ~EndsWithGz(n) => ~EndsWithGz(SimpleFilename(unquote(n)))

\* C12 witness: G%20H.wasm was fetched, and the run ended with G H.wasm and its
\* alias wasm
C12_Witness ==
    /\ Canonicalized
    /\ Tail(WasmEnc) \in DOMAIN snapshot
    /\ <<"G", " ", "H", ".wasm">> \in DOMAIN buildDir
    /\ <<"wasm">> \in DOMAIN buildDir
    /\ buildDir[<<"wasm">>] = snapshot[Tail(WasmEnc)]

\* the files of Build/ that hold what the fetch of manifest[i] stored
FromAsset(i) ==
    {n \in DOMAIN buildDir : buildDir[n].url = quote(BaseUrl(embedUrl) \o manifest[i])}

\* the fetch of manifest[i] failed, and no other fetch of the same path succeeded
FetchFailed(i) ==
    /\ results[i].status = "failed"
    /\ \A j \in 1..Len(results) : manifest[j] = manifest[i] => results[j].status = "failed"

\* C13: once the fetcher is through, Build/ holds no file, complete or partial,
\* of an asset whose fetch failed, and no canonical alias made from one.
C13_FailedAssetAbsent ==
    (entry = "grab" /\ pc \in {"fetch", "rewrite", "support", "info", "done"}
                    /\ Len(results) = Len(manifest)) =>
        \A i \in 1..Len(results) : FetchFailed(i) => FromAsset(i) = {}

\* C14: every file the fetcher writes lies under the working directory: no
\* fetched file has a path that leaves it.
C14_FilesUnderWorkingDir ==
    \A path \in elsewhere : path[1] # "../"

\* the order of the stages, as steps of pc: resolver, extractor, fetcher,
\* canonicalizer, rewriter, support files, descriptor writer
StageOrder ==
    {<<"start", "resolved">>, <<"resolved", "embed">>, <<"embed", "fetch">>,
     <<"fetch", "rewrite">>, <<"rewrite", "support">>, <<"support", "info">>,
     <<"info", "done">>}

\* one step of a run of grab_itch_game.py keeps the order
StepInOrder ==
    entry = "grab" =>
        /\ pc' # pc => pc' = "exit" \/ <<pc, pc'>> \in StageOrder
        /\ pc' = "fetch" => pc \in {"embed", "fetch"}
        /\ (pc' = "rewrite" /\ pc # "rewrite") =>
              /\ Len(results) = Len(manifest)
              /\ \A i \in 1..Len(results) : results[i].asset = manifest[i]
        /\ standalone' # standalone => pc = "rewrite" /\ listing' = listing /\ buildDir' = buildDir
        /\ ("game_info.json" \in bundle' /\ "game_info.json" \notin bundle) =>
              /\ pc = "info"
              /\ "standalone.html" \in bundle
              /\ standalone = create_standalone_html(indexHtml)
        /\ "game_info.json" \in bundle => bundle' = bundle /\ pc' = pc

\* C15: the stages run in the order resolver, extractor, fetcher, canonicalizer,
\* rewriter, descriptor writer; the canonicalizer starts only when every asset has
\* its fetch result; the descriptor is written at most once, after the standalone
\* markup was produced.
C15_StagesInOrder == [][StepInOrder]_vars

\* C15 witness: a run through all the stages with two assets fetched
C15_Witness ==
    /\ entry = "grab" /\ pc = "done"
    /\ Len(manifest) = 2 /\ Len(results) = 2
    /\ {"standalone.html", "game_info.json"} \subseteq bundle

\* ================================================= the claims, on SpecCanon
\* C16: the alias pass copies and never moves: every file that was in the
\* directory when the pass began is there afterwards, under the same name and with
\* the same content.
C16_AliasPassKeepsFiles ==
    pc \in {"fix1", "fix2"} =>
        \A n \in DOMAIN listing.dir : n \in DOMAIN buildDir /\ buildDir[n] = listing.dir[n]

\* C16 witness: G.data.gz and H.data.gz were both in the directory, the alias
\* data.gz was created from one of them, and the directory holds all three
C16_Witness ==
    /\ pc = "fix1"
    /\ DOMAIN listing.dir = {<<"G", ".data", ".gz">>, <<"H", ".data", ".gz">>}
    /\ DOMAIN buildDir = DOMAIN listing.dir \cup {<<"data", ".gz">>}

\* ===================================================== the claims, on Spec
\* the assets fetched into Build/, by their position in the manifest
FetchedToBuild ==
    {i \in 1..Len(results) : results[i].status = "ok" /\ InBuildDir(local_path(manifest[i]))}

\* what the rewriter makes of the path of an asset that stands alone in quotes
Substituted(asset_url) ==
    LET text == create_standalone_html(<<DQ>> \o asset_url \o <<DQ>>)
    IN  SubSeq(text, 2, Len(text) - 1)

\* C17: for every fetched asset Build/<name> the path the rewriter puts for it is
\* Build/<c>, c the canonical filename the alias pass gives <name>.
C17_RewriterMatchesCanonicalizer ==
    (entry = "grab" /\ pc \in {"support", "info", "done"}) =>
        \A i \in FetchedToBuild :
            LET c == SimpleFilename(unquote(Tail(manifest[i])))
            IN  c # None => /\ c \in DOMAIN buildDir
                            /\ Substituted(manifest[i]) = <<"Build/">> \o c

\* ================================================= the claims, on SpecCanon
\* C18: the decode pass loses no file: each file the directory held before the
\* pass is in it afterwards, under its decoded name and with its content.
C18_DecodePassKeepsFiles ==
    pc = "fix1" =>
        \A n \in DOMAIN snapshot :
            /\ unquote(n) \in DOMAIN listing.dir
            /\ listing.dir[unquote(n)] = snapshot[n]

====
